---- MODULE Spec2Model ----
(***************************************************************************)
(* Model of del_checkpoint.py: the checkpoint scanner, the three-phase     *)
(* retention calculator, nearest-step resolution, and the run of main      *)
(* (scan, plan and log, dry-run exit, confirmation gate, delete loop).     *)
(*                                                                         *)
(* Representation.                                                         *)
(*  - A checkpoint file "model_step_<n>.pt" is the record                  *)
(*    [kind |-> "ckpt", step |-> n]; model_files is the ascending list of  *)
(*    the steps of the scanned files (the path of a tuple is determined by *)
(*    its step, steps being unique per directory).                         *)
(*  - An optional argument (None or a value) is a sequence of length 0 or  *)
(*    1: None == <<>>, a value v is <<v>>.                                 *)
(*  - disk is the content of the directory the run works on ("run");       *)
(*    checkpoint_dirs is what glob("**/checkpoints/*") finds; disk0 is     *)
(*    the directory as the run found it and removed the steps whose files  *)
(*    the run's own os.remove calls removed (both only recorded).          *)
(*  - Phase boundaries are Python floats when they come from a percentage. *)
(*    They are kept here as exact fixed-point numbers scaled by 100        *)
(*    (x100), and int() is truncation toward zero of that number.          *)
(***************************************************************************)
EXTENDS Integers, Sequences, FiniteSets, TLC

VARIABLES pc, checkpoint_dirs, disk, disk0, args, model_files, to_keep,
          files_to_delete, log, confirmation, idx, deleted_count, error_count,
          removed, target, closest

vars == <<pc, checkpoint_dirs, disk, disk0, args, model_files, to_keep,
          files_to_delete, log, confirmation, idx, deleted_count, error_count,
          removed, target, closest>>

(* ---------------------------- bounds ---------------------------------- *)

\* Checkpoint steps of the small directories range over 0..MaxStep.
MaxStep == 3

\* Sampling intervals of the small policies range over -1..MaxInterval.
MaxInterval == 2

(* ----------------------- program constants ----------------------------- *)

\* main: args.middle_start_percent = 33 when neither form is given.
DefaultMiddlePercent == 33

\* main: args.last_start_percent = 90 when neither form is given.
DefaultLastPercent == 90

\* calculate_checkpoints_to_keep: first_step + total_range * 0.33, as x100.
FallbackMiddlePercent == 33

\* calculate_checkpoints_to_keep: first_step + total_range * 0.9, as x100.
FallbackLastPercent == 90

\* Defaults of --early_interval, --middle_interval, --last_interval.
DefaultEarlyInterval == 5000
DefaultMiddleInterval == 10000
DefaultLastInterval == 2000

(* ------------------------- Python helpers ------------------------------ *)

None == <<>>

Some(v) == <<v>>

Abs(x) == IF x < 0 THEN -x ELSE x

\* int(x) of a float x given as x100: truncation toward zero.
PyInt(x100) == IF x100 >= 0 THEN x100 \div 100 ELSE -((-x100) \div 100)

\* Mutant of PyRangeLen: the loop body runs once even when the range is empty.
PyRangeLenAtLeastOne(start, stop, step) ==
    IF step > 0
    THEN IF stop > start THEN (stop - start + step - 1) \div step ELSE 1
    ELSE IF start > stop THEN (start - stop - step - 1) \div (-step) ELSE 1

\* len(range(start, stop, step)) for step # 0.
PyRangeLen(start, stop, step) ==
    IF step > 0
    THEN IF stop > start THEN (stop - start + step - 1) \div step ELSE 0
    ELSE IF start > stop THEN (start - stop - step - 1) \div (-step) ELSE 0

\* range(start, stop, step) for step # 0, as the sequence of its values.
PyRange(start, stop, step) ==
    [i \in 1..PyRangeLen(start, stop, step) |-> start + (i - 1) * step]

\* The ascending sequence of the elements of a finite set of integers.
SortedSeq(S) ==
    CHOOSE s \in [1..Cardinality(S) -> S] :
        \A i, j \in 1..Cardinality(S) : i < j => s[i] < s[j]

SeqRange(s) == {s[i] : i \in 1..Len(s)}

(* ------------------------- find_closest_step --------------------------- *)

\* Mutant of ClosestLoop: diff <= min_diff, so a tie goes to the later step.
ClosestLoopLastTie(steps, target_step, acc) ==
    LET F[i \in 0..Len(steps)] ==
          IF i = 0 THEN acc
          ELSE LET prev == F[i - 1]
                   diff == Abs(steps[i] - target_step)
               IN  IF prev[2] = None \/ diff <= prev[2][1]
                   THEN <<Some(steps[i]), Some(diff)>>
                   ELSE prev
    IN  F[Len(steps)]

\* One pass of the loop body: acc = <<closest, min_diff>>, both optional
\* (closest = None, min_diff = inf before the first element).
ClosestLoop(steps, target_step, acc) ==
    LET F[i \in 0..Len(steps)] ==
          IF i = 0 THEN acc
          ELSE LET prev == F[i - 1]
                   diff == Abs(steps[i] - target_step)
               IN  IF prev[2] = None \/ diff < prev[2][1]
                   THEN <<Some(steps[i]), Some(diff)>>
                   ELSE prev
    IN  F[Len(steps)]

\* find_closest_step(model_files, target_step): None for an empty list.
find_closest_step(files, target_step) ==
    ClosestLoop(files, target_step, <<None, None>>)[1]

(* -------------------- calculate_checkpoints_to_keep -------------------- *)

first_step(files) == files[1]

last_step(files) == files[Len(files)]

total_range(files) == last_step(files) - first_step(files)

\* Mutant of middle_start: the percentage is used as a fraction (no / 100).
middle_start_NoDivision(files, a) ==
    IF a.middle_start_steps # None
    THEN a.middle_start_steps[1] * 100
    ELSE IF a.middle_start_percent # None
    THEN first_step(files) * 100
         + total_range(files) * a.middle_start_percent[1] * 100
    ELSE first_step(files) * 100 + total_range(files) * FallbackMiddlePercent

\* middle_start, x100: explicit steps, else the percentage, else 33%.
middle_start(files, a) ==
    IF a.middle_start_steps # None
    THEN a.middle_start_steps[1] * 100
    ELSE IF a.middle_start_percent # None
    THEN first_step(files) * 100 + total_range(files) * a.middle_start_percent[1]
    ELSE first_step(files) * 100 + total_range(files) * FallbackMiddlePercent

\* last_start, x100: explicit steps, else the percentage, else 90%.
last_start(files, a) ==
    IF a.last_start_steps # None
    THEN a.last_start_steps[1] * 100
    ELSE IF a.last_start_percent # None
    THEN first_step(files) * 100 + total_range(files) * a.last_start_percent[1]
    ELSE first_step(files) * 100 + total_range(files) * FallbackLastPercent

\* Mutant of PhaseKeep: the sampled target itself is kept, not the nearest
\* checkpoint.
PhaseKeepNoSnap(files, start, stop, interval, skip) ==
    LET r == PyRange(start, stop, interval)
    IN  UNION { IF skip # None /\ r[i] = skip[1] THEN {} ELSE {r[i]}
              : i \in 1..Len(r) }

\* The steps a phase adds: the nearest checkpoint of every sampled target,
\* except the targets equal to skip (None: nothing is skipped).
PhaseKeep(files, start, stop, interval, skip) ==
    LET r == PyRange(start, stop, interval)
    IN  UNION { LET c == find_closest_step(files, r[i])
                IN  IF skip # None /\ r[i] = skip[1] THEN {}
                    ELSE IF c # None THEN {c[1]} ELSE {}
              : i \in 1..Len(r) }

EarlyKeep(files, a) ==
    PhaseKeep(files, first_step(files), PyInt(middle_start(files, a)),
              a.early_interval, Some(first_step(files)))

MiddleKeep(files, a) ==
    PhaseKeep(files, PyInt(middle_start(files, a)), PyInt(last_start(files, a)),
              a.middle_interval, None)

LastKeep(files, a) ==
    PhaseKeep(files, PyInt(last_start(files, a)), last_step(files),
              a.last_interval, Some(last_step(files)))

\* Mutant of EndpointsKeep: only the first checkpoint is added.
EndpointsKeepFirstOnly(files) == {first_step(files)}

\* The steps always kept: the first and the last checkpoint.
EndpointsKeep(files) == {first_step(files), last_step(files)}

\* range() raises ValueError for a zero step (whatever the bounds are).
RaisesValueError(a) ==
    a.early_interval = 0 \/ a.middle_interval = 0 \/ a.last_interval = 0

\* The call's outcome: [raised |-> TRUE] when a range() raises, otherwise
\* the returned set.
calculate_checkpoints_to_keep(files, a) ==
    IF files = <<>> THEN [raised |-> FALSE, keep |-> {}]
    ELSE IF RaisesValueError(a) THEN [raised |-> TRUE, keep |-> {}]
    ELSE [raised |-> FALSE,
          keep |-> EndpointsKeep(files) \cup EarlyKeep(files, a)
                   \cup MiddleKeep(files, a) \cup LastKeep(files, a)]

(* ------------------------------ inputs --------------------------------- *)

\* A policy: the keyword arguments of calculate_checkpoints_to_keep.
Policy(ei, mi, li, msp, lsp, mss, lss) ==
    [early_interval |-> ei, middle_interval |-> mi, last_interval |-> li,
     middle_start_percent |-> msp, last_start_percent |-> lsp,
     middle_start_steps |-> mss, last_start_steps |-> lss]

\* The parsed command line: a policy plus --model_dir, --dry_run, --no_confirm.
Namespace(p, dir, dry, noc) ==
    [early_interval |-> p.early_interval, middle_interval |-> p.middle_interval,
     last_interval |-> p.last_interval,
     middle_start_percent |-> p.middle_start_percent,
     last_start_percent |-> p.last_start_percent,
     middle_start_steps |-> p.middle_start_steps,
     last_start_steps |-> p.last_start_steps,
     model_dir |-> dir, dry_run |-> dry, no_confirm |-> noc]

\* Small policies: intervals negative, zero and positive; boundaries below,
\* inside and above the step range, as steps, as percentages, as both (the
\* steps then win) or left out.
Intervals == -1..MaxInterval

BoundarySteps == -1..(MaxStep + 1)

Percents == {33, 90, 120}

\* <<steps, percent>> pairs of one boundary.
BoundaryOpts ==
    {<<None, None>>}
    \cup {<<None, Some(p)>> : p \in Percents}
    \cup {<<Some(s), None>> : s \in BoundarySteps}
    \cup {<<Some(s), Some(120)>> : s \in {0, MaxStep}}

SmallPolicies ==
    {Policy(ei, mi, li, m[2], l[2], m[1], l[1]) :
        ei \in Intervals, mi \in Intervals, li \in Intervals,
        m \in BoundaryOpts, l \in BoundaryOpts}

\* Ascending lists of distinct steps over 0..MaxStep, the empty list included.
SmallLists == {SortedSeq(S) : S \in SUBSET (0..MaxStep)}

\* A training run of 100000 steps with the default intervals.
LargeSteps == {0, 20000, 33000, 50000, 90000, 100000}

LargeLists ==
    {SortedSeq(S \cup {0, 100000}) : S \in SUBSET LargeSteps}
    \cup {<<n>> : n \in LargeSteps}

LargeMiddleOpts ==
    {<<None, None>>, <<None, Some(33)>>, <<Some(33000), None>>,
     <<Some(33000), Some(90)>>, <<Some(50000), Some(33)>>}

LargeLastOpts ==
    {<<None, None>>, <<None, Some(90)>>, <<Some(90000), None>>}

LargePolicies ==
    {Policy(DefaultEarlyInterval, DefaultMiddleInterval, DefaultLastInterval,
            m[2], l[2], m[1], l[1]) :
        m \in LargeMiddleOpts, l \in LargeLastOpts}

\* Targets handed to find_closest_step on its own.
ProbeTargets == (-2..(MaxStep + 2)) \cup {12000, 33000, 95000, 200000}

ProbeLists == SmallLists \cup LargeLists \cup {<<10000, 15000>>}

(* ----------------- the calculator and the resolver alone --------------- *)

NoLog == [plan |-> None, footer |-> None]

NoArgs == Namespace(Policy(DefaultEarlyInterval, DefaultMiddleInterval,
                           DefaultLastInterval, None, None, None, None),
                    None, FALSE, FALSE)

\* What the run's variables hold when only a function is called.
Idle ==
    /\ checkpoint_dirs = {} /\ disk = {} /\ disk0 = {}
    /\ files_to_delete = <<>> /\ log = NoLog /\ confirmation = None
    /\ idx = 0 /\ deleted_count = 0 /\ error_count = 0 /\ removed = {}

InitCalc ==
    /\ Idle
    /\ to_keep = {} /\ target = None /\ closest = None
    /\ \/ /\ pc = "call"
          /\ \/ /\ model_files \in SmallLists
                /\ \E p \in SmallPolicies : args = Namespace(p, None, FALSE, FALSE)
             \/ /\ model_files \in LargeLists
                /\ \E p \in LargePolicies : args = Namespace(p, None, FALSE, FALSE)
       \/ /\ pc = "probe"
          /\ model_files \in ProbeLists
          /\ args = NoArgs

\* to_keep = calculate_checkpoints_to_keep(model_files, **policy)
CallCalculate ==
    /\ pc = "call"
    /\ LET r == calculate_checkpoints_to_keep(model_files, args)
       IN  /\ pc' = IF r.raised THEN "raised" ELSE "returned"
           /\ to_keep' = r.keep
    /\ UNCHANGED <<checkpoint_dirs, disk, disk0, args, model_files, files_to_delete, log,
                   confirmation, idx, deleted_count, error_count, removed,
                   target, closest>>

\* closest = find_closest_step(model_files, target)
CallFindClosest ==
    /\ pc = "probe"
    /\ \E t \in ProbeTargets :
          /\ target' = Some(t)
          /\ closest' = find_closest_step(model_files, t)
    /\ pc' = "probed"
    /\ UNCHANGED <<checkpoint_dirs, disk, disk0, args, model_files, to_keep, files_to_delete,
                   log, confirmation, idx, deleted_count, error_count, removed>>

NextCalc == CallCalculate \/ CallFindClosest

SpecCalc == InitCalc /\ [][NextCalc]_vars

(* ------------------------------ the run -------------------------------- *)

CkptFile(n) == [kind |-> "ckpt", step |-> n]

\* A file of the directory whose name does not match model_step_<digits>.pt.
OtherFile == [kind |-> "other", step |-> 0]

\* checkpoint_cleanup_<timestamp>.log, written into the same directory.
LogFile == [kind |-> "log", step |-> 0]

\* get_model_checkpoints: the steps of the matching files, sorted ascending.
get_model_checkpoints(d) ==
    SortedSeq({f.step : f \in {g \in d : g.kind = "ckpt"}})

\* str.lower() on the characters the answers are made of.
LowerChar(c) ==
    CASE c = "Y" -> "y"
      [] c = "E" -> "e"
      [] c = "S" -> "s"
      [] c = "N" -> "n"
      [] c = "O" -> "o"
      [] OTHER -> c

Lower(str) == [i \in 1..Len(str) |-> LowerChar(str[i])]

\* confirmation.lower() in ("yes", "y")
Accepted(str) == Lower(str) \in {<<"y", "e", "s">>, <<"y">>}

\* What the user may type at the prompt, as sequences of characters.
Answers ==
    {<<"y">>, <<"Y", "E", "S">>, <<"Y", "e", "s">>,
     <<"n", "o">>, <<>>, <<"y", "e">>, <<"y", "e", "s", " ">>}

\* Mutant of FilesToDelete: the test is inverted (step in to_keep).
FilesToDeleteInverted(files, keep) ==
    LET Test(n) == n \in keep IN SelectSeq(files, Test)

\* [(filename, step) for filename, step in model_files if step not in to_keep]
FilesToDelete(files, keep) ==
    LET Test(n) == n \notin keep IN SelectSeq(files, Test)

\* The keep listing: the files of model_files whose step is in to_keep.
FilesKept(files, keep) ==
    LET Test(n) == n \in keep IN SelectSeq(files, Test)

\* The log as first written: header counts, "Kept files:", "Deleted files:".
PlanLog(files, keep, del) ==
    [total |-> Len(files), kept_count |-> Cardinality(keep),
     delete_count |-> Len(del),
     kept |-> FilesKept(files, keep), deleted |-> del]

\* The footer appended after the delete loop.
Footer(dc, ec) == [deletions |-> dc, errors |-> ec]

\* Intervals of the command lines of the run: zero, dense, and the whole range.
CliIntervals == {0, 1, MaxStep}

CliMiddleOpts == {<<None, None>>, <<Some(0), None>>}

CliLastOpts == {<<None, None>>, <<Some(0), None>>, <<None, Some(120)>>}

CliPolicies ==
    {Policy(ei, mi, li, m[2], l[2], m[1], l[1]) :
        ei \in CliIntervals, mi \in CliIntervals, li \in CliIntervals,
        m \in CliMiddleOpts, l \in CliLastOpts}

\* --model_dir given; or left out with a checkpoints/ tree to pick from; or
\* left out with none: <<args.model_dir, checkpoint_dirs>>.
CliDirs == {<<Some("run"), {"run"}>>, <<None, {"run"}>>, <<None, {}>>}

Directories ==
    {{CkptFile(n) : n \in S} \cup {OtherFile} : S \in SUBSET (0..MaxStep)}

Init ==
    /\ pc = "SCAN"
    /\ disk \in Directories
    /\ disk0 = disk
    /\ \E p \in CliPolicies, dir \in CliDirs, dry \in BOOLEAN, noc \in BOOLEAN :
          /\ args = Namespace(p, dir[1], dry, noc)
          /\ checkpoint_dirs = dir[2]
    /\ model_files = <<>> /\ to_keep = {} /\ files_to_delete = <<>>
    /\ log = NoLog /\ confirmation = None
    /\ idx = 0 /\ deleted_count = 0 /\ error_count = 0 /\ removed = {}
    /\ target = None /\ closest = None

\* max(checkpoint_dirs, key=os.path.getmtime): the directory the run works on.
NewestDir(dirs) == CHOOSE d \in dirs : TRUE

\* main, lines 152-160: the directory given, else the newest one found.
SelectDir(a, dirs) ==
    IF a.model_dir = None /\ dirs # {}
    THEN [a EXCEPT !.model_dir = Some(NewestDir(dirs))]
    ELSE a

\* main, lines 142-149: the defaults when neither form of a boundary is given.
ApplyDefaults(a) ==
    [a EXCEPT
       !.middle_start_percent =
           IF a.middle_start_percent = None /\ a.middle_start_steps = None
           THEN Some(DefaultMiddlePercent) ELSE @,
       !.last_start_percent =
           IF a.last_start_percent = None /\ a.last_start_steps = None
           THEN Some(DefaultLastPercent) ELSE @]

\* main up to the scan: parse, default, pick the directory, list the files.
Scan ==
    /\ pc = "SCAN"
    /\ args' = SelectDir(ApplyDefaults(args), checkpoint_dirs)
    /\ IF args.model_dir = None /\ checkpoint_dirs = {}
       THEN /\ pc' = "NO_DIR"
            /\ UNCHANGED model_files
       ELSE /\ model_files' = get_model_checkpoints(disk)
            /\ pc' = IF get_model_checkpoints(disk) = <<>>
                     THEN "NO_FILES" ELSE "PLAN"
    /\ UNCHANGED <<checkpoint_dirs, disk, disk0, to_keep, files_to_delete, log, confirmation,
                   idx, deleted_count, error_count, removed, target, closest>>

\* Mutant of AfterPlan: --dry_run is not looked at.
AfterPlanIgnoresDryRun(a) ==
    IF ~a.no_confirm THEN "CONFIRM" ELSE "DELETE"

\* Where the run goes once the plan is logged (lines 221-232).
AfterPlan(a) ==
    IF a.dry_run THEN "DRY_RUN_EXIT"
    ELSE IF ~a.no_confirm THEN "CONFIRM"
    ELSE "DELETE"

\* main, lines 169-226: compute the retained set and the delete list, print
\* the plan, write the log, and leave on --dry_run.
Plan ==
    /\ pc = "PLAN"
    /\ LET r == calculate_checkpoints_to_keep(model_files, args)
           del == FilesToDelete(model_files, r.keep)
       IN  IF r.raised
           THEN /\ pc' = "CRASH"
                /\ UNCHANGED <<checkpoint_dirs, to_keep, files_to_delete, log, disk>>
           ELSE /\ to_keep' = r.keep
                /\ files_to_delete' = del
                /\ log' = [log EXCEPT !.plan = Some(PlanLog(model_files, r.keep, del))]
                /\ disk' = disk \cup {LogFile}
                /\ pc' = AfterPlan(args)
    /\ UNCHANGED <<checkpoint_dirs, disk0, args, model_files, confirmation, idx, deleted_count,
                   error_count, removed, target, closest>>

\* Mutant of AfterAnswer: anything but "no" goes on.
AfterAnswerUnlessNo(ans) ==
    IF Lower(ans) \notin {<<"n", "o">>, <<"n">>} THEN "DELETE" ELSE "ABORT"

\* Where the run goes on the answer given at the prompt (lines 228-230).
AfterAnswer(ans) == IF Accepted(ans) THEN "DELETE" ELSE "ABORT"

\* main, lines 227-230: the prompt and its answer.
Confirm ==
    /\ pc = "CONFIRM"
    /\ \E ans \in Answers :
          /\ confirmation' = Some(ans)
          /\ pc' = AfterAnswer(ans)
    /\ UNCHANGED <<checkpoint_dirs, disk, disk0, args, model_files, to_keep, files_to_delete,
                   log, idx, deleted_count, error_count, removed, target, closest>>

\* input() raises EOFError when standard input is closed: the run dies there.
ConfirmEOF ==
    /\ pc = "CONFIRM"
    /\ pc' = "CRASH"
    /\ UNCHANGED <<checkpoint_dirs, disk, disk0, args, model_files, to_keep, files_to_delete, log,
                   confirmation, idx, deleted_count, error_count, removed,
                   target, closest>>

\* The file the delete loop is at.
CurrentFile == CkptFile(files_to_delete[idx + 1])

\* One iteration of the delete loop in which os.remove succeeds.
DeleteOk ==
    /\ pc = "DELETE" /\ idx < Len(files_to_delete)
    /\ CurrentFile \in disk
    /\ disk' = disk \ {CurrentFile}
    /\ removed' = removed \cup {files_to_delete[idx + 1]}
    /\ deleted_count' = deleted_count + 1
    /\ idx' = idx + 1
    /\ UNCHANGED <<checkpoint_dirs, pc, disk0, args, model_files, to_keep, files_to_delete, log,
                   confirmation, error_count, target, closest>>

\* Mutant of DeleteFail: the exception is counted but ends the loop.
DeleteFailAborts ==
    /\ pc = "DELETE" /\ idx < Len(files_to_delete)
    /\ error_count' = error_count + 1
    /\ idx' = idx + 1
    /\ pc' = "DONE"
    /\ UNCHANGED <<checkpoint_dirs, disk, disk0, args, model_files, to_keep,
                   files_to_delete, log, confirmation, deleted_count, removed,
                   target, closest>>

\* One iteration in which os.remove raises (the file is missing, or it cannot
\* be removed): the exception is caught and counted.
DeleteFail ==
    /\ pc = "DELETE" /\ idx < Len(files_to_delete)
    /\ error_count' = error_count + 1
    /\ idx' = idx + 1
    /\ UNCHANGED <<checkpoint_dirs, pc, disk, disk0, args, model_files, to_keep, files_to_delete,
                   log, confirmation, deleted_count, removed, target, closest>>

\* main, lines 244-250: the loop is over; the footer is appended to the log.
Finish ==
    /\ pc = "DELETE" /\ idx = Len(files_to_delete)
    /\ log' = [log EXCEPT !.footer = Some(Footer(deleted_count, error_count))]
    /\ disk' = disk \cup {LogFile}
    /\ pc' = "DONE"
    /\ UNCHANGED <<checkpoint_dirs, disk0, args, model_files, to_keep, files_to_delete,
                   confirmation, idx, deleted_count, error_count, removed,
                   target, closest>>

\* The environment: while the delete loop runs, another process removes a
\* targeted file the loop has not reached yet.
Vanish ==
    /\ pc = "DELETE"
    /\ \E i \in (idx + 1)..Len(files_to_delete) :
          /\ CkptFile(files_to_delete[i]) \in disk
          /\ disk' = disk \ {CkptFile(files_to_delete[i])}
    /\ UNCHANGED <<checkpoint_dirs, pc, disk0, args, model_files, to_keep, files_to_delete, log,
                   confirmation, idx, deleted_count, error_count, removed,
                   target, closest>>

Next ==
    \/ Scan
    \/ Plan
    \/ Confirm
    \/ ConfirmEOF
    \/ DeleteOk
    \/ DeleteFail
    \/ Finish
    \/ Vanish

Spec == Init /\ [][Next]_vars

\* The run is one sequential process: a step that can be taken is taken.
FairSpec == Spec /\ WF_vars(Scan \/ Plan \/ Confirm \/ ConfirmEOF
                            \/ DeleteOk \/ DeleteFail \/ Finish)

(* ----------------------------- properties ------------------------------ *)

AllPositive(a) ==
    a.early_interval > 0 /\ a.middle_interval > 0 /\ a.last_interval > 0

\* C1: for a non-empty ascending list and any policy, the set the calculator
\* returns contains the first and the last step of the list.
C1_FirstAndLastKept ==
    (pc = "returned" /\ model_files # <<>>) =>
        /\ model_files[1] \in to_keep
        /\ model_files[Len(model_files)] \in to_keep

\* The calculator returned for a list of three or more steps, and the two
\* end points are all it kept.
C1_Witness ==
    /\ pc = "returned"
    /\ Len(model_files) >= 3
    /\ to_keep = {model_files[1], model_files[Len(model_files)]}

\* C5: find_closest_step returns a step of the list at minimal distance from
\* the target, the earliest such step of the list on a tie; [10000, 15000]
\* and target 12000 give 10000.
C5_NearestStep ==
    (pc = "probed" /\ model_files # <<>>) =>
        /\ closest # None
        /\ \E i \in 1..Len(model_files) :
              /\ closest[1] = model_files[i]
              /\ \A j \in 1..Len(model_files) :
                    /\ Abs(model_files[i] - target[1])
                         <= Abs(model_files[j] - target[1])
                    /\ Abs(model_files[j] - target[1])
                         = Abs(model_files[i] - target[1]) => i <= j
        /\ (model_files = <<10000, 15000>> /\ target = Some(12000))
              => closest = Some(10000)

\* The resolver was called on a target two steps of the list are equally far
\* from, and no step is nearer.
C5_Witness ==
    /\ pc = "probed"
    /\ \E i, j \in 1..Len(model_files) :
          /\ i < j
          /\ Abs(model_files[i] - target[1]) = Abs(model_files[j] - target[1])
          /\ closest = Some(model_files[i])

\* C6: with exactly one checkpoint, whatever the policy, the retained set is
\* that step alone and the delete list is empty.
C6_SingleCheckpoint ==
    (pc = "returned" /\ Len(model_files) = 1) =>
        /\ to_keep = {model_files[1]}
        /\ FilesToDelete(model_files, to_keep) = <<>>

\* The calculator returned for the single checkpoint 50000 with both
\* boundaries given as steps far from it.
C6_Witness ==
    /\ pc = "returned"
    /\ model_files = <<50000>>
    /\ args.middle_start_steps = Some(33000)
    /\ args.last_start_steps = Some(90000)
    /\ to_keep = {50000}

\* The arguments with the middle boundary given as steps only.
WithMiddleSteps(a, n) ==
    [a EXCEPT !.middle_start_steps = Some(n), !.middle_start_percent = None]

\* C7: with first_step = 0 and last_step = 100000, middle_start_percent = 33
\* resolves to the middle_start of middle_start_steps = 33000 and gives the
\* same retained set; an explicit step boundary is used whatever percentage
\* comes with it.
C7_PercentEqualsSteps ==
    (pc = "returned" /\ model_files # <<>>) =>
        /\ ( /\ model_files[1] = 0
             /\ model_files[Len(model_files)] = 100000
             /\ args.middle_start_steps = None
             /\ args.middle_start_percent = Some(33) )
           => /\ middle_start(model_files, args) = 33000 * 100
              /\ middle_start(model_files, args)
                   = middle_start(model_files, WithMiddleSteps(args, 33000))
              /\ to_keep = calculate_checkpoints_to_keep(
                               model_files, WithMiddleSteps(args, 33000)).keep
        /\ args.middle_start_steps # None
           => /\ middle_start(model_files, args) = args.middle_start_steps[1] * 100
              /\ to_keep = calculate_checkpoints_to_keep(
                               model_files,
                               WithMiddleSteps(args, args.middle_start_steps[1])).keep
        /\ args.last_start_steps # None
           => last_start(model_files, args) = args.last_start_steps[1] * 100

\* The calculator returned for a run from 0 to 100000 with the middle boundary
\* given as 33 percent, and the checkpoint at 33000 is kept.
C7_Witness ==
    /\ pc = "returned"
    /\ Len(model_files) >= 3
    /\ model_files[1] = 0 /\ model_files[Len(model_files)] = 100000
    /\ args.middle_start_steps = None
    /\ args.middle_start_percent = Some(33)
    /\ 33000 \in to_keep

\* The targets start, start + k, ... below stop, for k > 0.
Sampled(start, stop, k) ==
    {start + i * k : i \in 0..((stop - start - 1) \div k)}

\* The step of the list nearest to t, the smaller one on a tie.
Nearest(files, t) ==
    CHOOSE n \in SeqRange(files) :
        \A m \in SeqRange(files) :
            \/ Abs(n - t) < Abs(m - t)
            \/ (Abs(n - t) = Abs(m - t) /\ n <= m)

\* What a phase is to add: nothing when [start, stop) is empty.
PhaseExpected(files, start, stop, k, skipped) ==
    IF start >= stop THEN {}
    ELSE {Nearest(files, t) : t \in Sampled(start, stop, k) \ skipped}

\* C10: with positive intervals the calculator raises nothing and returns
\* the two end points plus what the phases with a non-empty
\* [phase_start, phase_end) sample; a phase whose range is empty (inverted or
\* out-of-range boundaries) adds nothing.
C10_EmptyPhaseSkipped ==
    (pc \in {"returned", "raised"} /\ model_files # <<>> /\ AllPositive(args)) =>
        LET first == model_files[1]
            last == model_files[Len(model_files)]
            ms == PyInt(middle_start(model_files, args))
            ls == PyInt(last_start(model_files, args))
        IN  /\ pc = "returned"
            /\ to_keep =
                 {first, last}
                 \cup PhaseExpected(model_files, first, ms,
                                    args.early_interval, {first})
                 \cup PhaseExpected(model_files, ms, ls,
                                    args.middle_interval, {})
                 \cup PhaseExpected(model_files, ls, last,
                                    args.last_interval, {last})

\* The calculator returned for inverted boundaries (last_start below
\* middle_start, middle_start not above the first step): the early and the
\* middle range are empty, and a checkpoint is left out of the retained set.
C10_Witness ==
    /\ pc = "returned"
    /\ Len(model_files) >= 3
    /\ AllPositive(args)
    /\ PyInt(last_start(model_files, args)) < PyInt(middle_start(model_files, args))
    /\ PyInt(middle_start(model_files, args)) <= model_files[1]
    /\ to_keep # SeqRange(model_files)

\* The checkpoint files the scan listed.
ScannedFiles == {CkptFile(model_files[i]) : i \in 1..Len(model_files)}

Ascending(q) == \A i, j \in 1..Len(q) : i < j => q[i] < q[j]

\* C2 as stated: after a run with --dry_run the files on disk are those that
\* were there before the run.
C2_DiskIdentical ==
    (args.dry_run /\ pc = "DRY_RUN_EXIT") => disk = disk0

\* C2, amended: a run with --dry_run removes no file: every file that was on
\* disk is still there, and the only file added is the plan log, which lists
\* the computed keep and delete lists.
C2_DryRunRemovesNothing ==
    args.dry_run =>
        /\ removed = {}
        /\ disk0 \subseteq disk
        /\ disk \ disk0 \subseteq {LogFile}
        /\ pc \notin {"CONFIRM", "DELETE", "DONE", "ABORT"}
        /\ pc = "DRY_RUN_EXIT" =>
              /\ LogFile \in disk
              /\ log.plan # None
              /\ log.footer = None
              /\ SeqRange(log.plan[1].kept) = SeqRange(model_files) \cap to_keep
              /\ SeqRange(log.plan[1].deleted) = SeqRange(model_files) \ to_keep

\* A dry run ended with a non-empty delete list: the listed files are on disk
\* and the log file is the one new file.
C2_Witness ==
    /\ pc = "DRY_RUN_EXIT"
    /\ args.dry_run
    /\ Len(files_to_delete) >= 1
    /\ disk = disk0 \cup {LogFile}
    /\ LogFile \notin disk0

\* The answers equal to "yes" or "y" up to case.
YesAnswers ==
    {<<a, b, c>> : a \in {"y", "Y"}, b \in {"e", "E"}, c \in {"s", "S"}}
    \cup {<<"y">>, <<"Y">>}

\* C3: without --dry_run a file is removed only under --no_confirm or after
\* an answer of "yes" or "y" (any case); any other answer aborts the run with
\* nothing deleted and every checkpoint file still on disk.
C3_ConfirmationGate ==
    /\ (removed # {} \/ pc \in {"DELETE", "DONE"}) =>
          /\ ~args.dry_run
          /\ \/ args.no_confirm
             \/ (confirmation # None /\ confirmation[1] \in YesAnswers)
    /\ (confirmation # None /\ confirmation[1] \notin YesAnswers) =>
          /\ pc = "ABORT"
          /\ ~args.no_confirm
          /\ removed = {}
          /\ deleted_count = 0
          /\ ScannedFiles \subseteq disk
          /\ disk0 \subseteq disk
    /\ pc = "ABORT" =>
          (confirmation # None /\ confirmation[1] \notin YesAnswers)

\* The user declined ("ye" is not "yes") a plan that had files to delete.
C3_Witness ==
    /\ pc = "ABORT"
    /\ confirmation = Some(<<"y", "e">>)
    /\ Len(files_to_delete) >= 1
    /\ \A i \in 1..Len(files_to_delete) : CkptFile(files_to_delete[i]) \in disk

\* C4: a removal that fails is counted and the loop goes on: every target is
\* attempted, each one whose removal does not fail is removed, and at the end
\* deleted_count + error_count is the number of targets.
C4_DeleteResilience ==
    /\ pc \in {"DELETE", "DONE"} =>
          /\ deleted_count + error_count = idx
          /\ deleted_count = Cardinality(removed)
          /\ idx <= Len(files_to_delete)
          /\ removed \subseteq {files_to_delete[i] : i \in 1..idx}
          /\ \A n \in removed : CkptFile(n) \notin disk
    /\ pc = "DONE" =>
          /\ idx = Len(files_to_delete)
          /\ deleted_count + error_count = Len(files_to_delete)
          /\ log.footer = Some(Footer(deleted_count, error_count))

\* The first target was already missing when the loop came to it (it was not
\* removed by the run and is not on disk), its removal failed, and the second
\* target was removed after that.
C4_Witness ==
    /\ pc = "DONE"
    /\ Len(files_to_delete) = 2
    /\ files_to_delete[1] \notin removed
    /\ CkptFile(files_to_delete[1]) \notin disk
    /\ files_to_delete[2] \in removed
    /\ deleted_count = 1 /\ error_count = 1

\* C9: once the plan is made, every scanned checkpoint is in exactly one of
\* the keep list and the delete list, both ascending; the delete list holds
\* the steps absent from the retained set; every retained step is a scanned
\* step; the kept count plus the delete count is the number of checkpoint
\* files; and files are removed in the order of the delete list.
C9_KeepDeletePartition ==
    log.plan # None =>
        LET kept == log.plan[1].kept
            deleted == log.plan[1].deleted
        IN  /\ deleted = files_to_delete
            /\ SeqRange(kept) \cup SeqRange(deleted) = SeqRange(model_files)
            /\ SeqRange(kept) \cap SeqRange(deleted) = {}
            /\ SeqRange(kept) = to_keep
            /\ SeqRange(deleted) = SeqRange(model_files) \ to_keep
            /\ Ascending(kept) /\ Ascending(deleted)
            /\ to_keep \subseteq SeqRange(model_files)
            /\ log.plan[1].kept_count = Cardinality(to_keep)
            /\ log.plan[1].kept_count = Len(kept)
            /\ log.plan[1].delete_count = Len(deleted)
            /\ log.plan[1].kept_count + log.plan[1].delete_count
                 = log.plan[1].total
            /\ log.plan[1].total = Cardinality({f \in disk0 : f.kind = "ckpt"})
            /\ removed \subseteq {files_to_delete[i] : i \in 1..idx}

\* A run removed both files of a two-file delete list and kept the rest.
C9_Witness ==
    /\ pc = "DONE"
    /\ Len(files_to_delete) = 2
    /\ removed = SeqRange(files_to_delete)
    /\ Len(model_files) = Cardinality(to_keep) + 2

\* How a run ends by the state machine: the dry-run exit, the abort, the end
\* of the deletions, or the scan that found nothing to work on.
EndStates == {"DRY_RUN_EXIT", "ABORT", "DONE", "NO_FILES", "NO_DIR"}

\* C8, the order of a run: the plan log is written before the prompt and
\* before any removal, the footer only after the last attempt, and a scan
\* that finds nothing ends the run before any plan, log or deletion.
RunOrder ==
    /\ pc \in {"SCAN", "PLAN", "NO_FILES", "NO_DIR"} =>
          /\ log = NoLog /\ LogFile \notin disk
          /\ removed = {} /\ confirmation = None /\ disk = disk0
    /\ pc = "NO_FILES" => model_files = <<>>
    /\ pc \in {"CONFIRM", "DELETE", "ABORT", "DRY_RUN_EXIT", "DONE"} =>
          /\ log.plan # None /\ LogFile \in disk
          /\ model_files # <<>>
    /\ (confirmation # None \/ removed # {}) => log.plan # None
    /\ pc \in {"CONFIRM", "ABORT", "DRY_RUN_EXIT"} =>
          /\ removed = {} /\ idx = 0
    /\ log.footer # None <=> pc = "DONE"
    /\ pc = "DONE" => idx = Len(files_to_delete)
    /\ pc = "DRY_RUN_EXIT" => args.dry_run
    /\ pc \in {"CONFIRM", "ABORT", "DELETE", "DONE"} => ~args.dry_run

\* C8, the transitions of a run:
\* SCAN -> PLAN -> (DRY_RUN_EXIT | CONFIRM -> (ABORT | DELETE -> DONE)).
RunTransitions ==
    [][ pc' # pc =>
          \/ pc = "SCAN" /\ pc' \in {"PLAN", "NO_FILES", "NO_DIR"}
          \/ pc = "PLAN" /\ pc' \in {"DRY_RUN_EXIT", "CONFIRM", "DELETE"}
          \/ pc = "CONFIRM" /\ pc' \in {"ABORT", "DELETE"}
          \/ pc = "DELETE" /\ pc' = "DONE" ]_vars

\* C8 as stated: every run follows the state machine in order and ends in one
\* of its end states.
C8_RunReachesEndState ==
    /\ RunOrder
    /\ pc \in {"SCAN", "PLAN", "CONFIRM", "DELETE"} \cup EndStates

\* The transitions of a run that the code makes, the two uncaught exceptions
\* (ValueError in the plan, EOFError at the prompt) included.
RunTransitionsOrCrash ==
    [][ pc' # pc =>
          \/ pc = "SCAN" /\ pc' \in {"PLAN", "NO_FILES", "NO_DIR"}
          \/ pc = "PLAN" /\ pc' \in {"DRY_RUN_EXIT", "CONFIRM", "DELETE", "CRASH"}
          \/ pc = "CONFIRM" /\ pc' \in {"ABORT", "DELETE", "CRASH"}
          \/ pc = "DELETE" /\ pc' = "DONE" ]_vars

\* Every run stops: in an end state of the state machine, or on an uncaught
\* exception.
RunStops == <>(pc \in EndStates \cup {"CRASH"})

====
